---- MODULE Spec2Model ----
(***************************************************************************)
(* Model of random_maze_solver_json.py: get_maze (recursive depth-first    *)
(* carving walk) and set_maze_path (recursive depth-first path search),    *)
(* driven by a caller that holds the JSON maze data between the calls.     *)
(*                                                                         *)
(* Python lists are modelled as functions with domain 0..len-1, so that    *)
(* the indices of the model are the indices of the code; the JSON text is  *)
(* modelled as tuples (1-based) of rows of cells whose flags are the JSON  *)
(* literals "true" and "false".  The recursion of enter_cell and test_path *)
(* is the variable stack, one frame per active call; a frame's neighbors   *)
(* is the part of the neighbor list the for loop has not consumed yet.     *)
(***************************************************************************)
EXTENDS Integers, Sequences, FiniteSets, TLC

\* ------------------------------------------------------------------ bounds
\* the largest number of playable cells (width * height) of a requested maze
MaxCells == 6
\* the requested dimensions go down to -NegDim
NegDim == 1
MaxEdits == 2
MaxSolves == 2

VARIABLES width, height, grid, pc, iy, stack, err, data, data_in,
          origin, in_origin, retval, found, edits, solves, calls,
          px, py, file, key

vars == <<width, height, grid, pc, iy, stack, err, data, data_in,
          origin, in_origin, retval, found, edits, solves, calls,
          px, py, file, key>>

\* ------------------------------------------------------- Python semantics
\* len([v] * n) and len(range(n)): a non-positive count gives no element
PyLen(n) == IF n > 0 THEN n ELSE 0

\* list[i] raises IndexError unless -len <= i < len
PyInRange(i, n) == (0 - n) <= i /\ i < n

\* list[i] with a negative i counts from the end
PyIdx(i, n) == IF i < 0 THEN i + n ELSE i

max(a, b) == IF a >= b THEN a ELSE b

None == [none |-> TRUE]

NumRows(g) == Cardinality(DOMAIN g)

NumCols(g) == IF NumRows(g) = 0 THEN 0 ELSE Cardinality(DOMAIN g[0])

\* grid[y][x] is a legal subscript
Subscript(g, y, x) == PyInRange(y, NumRows(g)) /\ PyInRange(x, NumCols(g))

\* grid[y][x] = c
SetCell(g, y, x, c) ==
    [g EXCEPT ![PyIdx(y, NumRows(g))][PyIdx(x, NumCols(g))] = c]

\* ---------------------------------------------------------------- get_maze
PlayableCell == [top |-> TRUE, left |-> TRUE, path |-> FALSE, visited |-> FALSE]

ClosureColumnCellTop == [top |-> TRUE, left |-> TRUE, path |-> FALSE, visited |-> TRUE]

ClosureColumnCell == [top |-> FALSE, left |-> TRUE, path |-> FALSE, visited |-> TRUE]

ClosureRowCell == [top |-> TRUE, left |-> FALSE, path |-> FALSE, visited |-> TRUE]

CornerCell == [top |-> FALSE, left |-> FALSE, path |-> FALSE, visited |-> TRUE]

\* grid = [[None] * (width + 1) for i in range(height + 1)]
NewGrid(w, h) == [y \in 0..(PyLen(h + 1) - 1) |-> [x \in 0..(PyLen(w + 1) - 1) |-> None]]

\* one pass of the loop over y: the playable cells of row y, then its
\* closure-column cell
FilledRow(g, y, w) ==
    [g EXCEPT ![y] = [x \in DOMAIN g[y] |->
        IF x < w THEN PlayableCell
        ELSE IF x = PyIdx(w, NumCols(g)) THEN ClosureColumnCell
        ELSE g[y][x]]]

\* the loop over x that fills the closure row grid[height]
FilledClosureRow(g, w, h) ==
    [g EXCEPT ![PyIdx(h, NumRows(g))] = [x \in DOMAIN g[PyIdx(h, NumRows(g))] |->
        IF x < w THEN ClosureRowCell ELSE g[PyIdx(h, NumRows(g))][x]]]

\* the in-bounds neighbors of (x, y) in the order the code appends them
Neighbors(x, y, w, h) ==
    (IF x > 0 THEN << <<x - 1, y>> >> ELSE << >>) \o
    (IF x < w THEN << <<x + 1, y>> >> ELSE << >>) \o
    (IF y > 0 THEN << <<x, y - 1>> >> ELSE << >>) \o
    (IF y < h THEN << <<x, y + 1>> >> ELSE << >>)

\* shuffle(neighbors) fixes an order that the for loop reveals one element
\* per pass: the elements still to come, any of which can be the next one
Shuffled(s) == {s[i] : i \in 1..Len(s)}

\* the row of the cell whose top flag is the wall of a vertical move
CarveRowMin(y, ny) == IF y <= ny THEN y ELSE ny

CarveRow(y, ny) == max(y, ny)

\* the column of the cell whose left flag is the wall of a horizontal move
CarveColMin(x, nx) == IF x <= nx THEN x ELSE nx

CarveCol(x, nx) == max(x, nx)

\* the two wall removals of one carving step from (x, y) into (nx, ny)
RemoveWallBoth(g, x, y, nx, ny) ==
    [g EXCEPT ![CarveRow(y, ny)][x].top = FALSE, ![y][CarveCol(x, nx)].left = FALSE]

RemoveWall(g, x, y, nx, ny) ==
    LET g1 == IF nx = x THEN [g EXCEPT ![CarveRow(y, ny)][x].top = FALSE] ELSE g
    IN  IF ny = y THEN [g1 EXCEPT ![y][CarveCol(x, nx)].left = FALSE] ELSE g1

\* the test that makes the for loop of enter_cell skip a neighbor
SkipNever(g, nx, ny) == FALSE

SkipVisited(g, nx, ny) == g[ny][nx].visited

\* enter_cell marks the accepted cell as visited
Visit(g, x, y) == [g EXCEPT ![y][x].visited = TRUE]

Frame(x, y, nbrs) == [x |-> x, y |-> y, neighbors |-> nbrs]

Top == stack[Len(stack)]

Pop == SubSeq(stack, 1, Len(stack) - 1)

Raise(e) ==
    /\ pc' = "raised"
    /\ err' = e

\* grid = [[None] * (width + 1) for i in range(height + 1)]
get_maze_alloc ==
    /\ pc = "get_maze"
    /\ grid' = NewGrid(width, height)
    /\ iy' = 0
    /\ pc' = "fill_rows"
    /\ UNCHANGED <<px, py, file, key, width, height, stack, err, data, data_in, origin,
                   in_origin, retval, found, edits, solves, calls>>

\* for y in range(height): one pass, or the end of the loop
get_maze_fill_row ==
    /\ pc = "fill_rows"
    /\ iy < height
    /\ IF Subscript(grid, iy, width)
       THEN /\ grid' = FilledRow(grid, iy, width)
            /\ iy' = iy + 1
            /\ UNCHANGED <<pc, err>>
       ELSE \* width < 0: grid[y][width] raises on the empty row
            /\ Raise("IndexError")
            /\ UNCHANGED <<grid, iy>>
    /\ UNCHANGED <<px, py, file, key, width, height, stack, data, data_in, origin,
                   in_origin, retval, found, edits, solves, calls>>

\* the closure row and the corner cell
get_maze_fill_closure ==
    /\ pc = "fill_rows"
    /\ iy >= height
    /\ IF width >= 1 /\ ~PyInRange(height, NumRows(grid))
       THEN /\ Raise("IndexError")
            /\ UNCHANGED grid
       ELSE IF ~Subscript(grid, height, width)
       THEN /\ Raise("IndexError")
            /\ grid' = IF width >= 1 THEN FilledClosureRow(grid, width, height)
                       ELSE grid
       ELSE /\ grid' = SetCell(FilledClosureRow(grid, width, height),
                               height, width, CornerCell)
            /\ pc' = "open_walls"
            /\ UNCHANGED err
    /\ UNCHANGED <<px, py, file, key, width, height, iy, stack, data, data_in, origin,
                   in_origin, retval, found, edits, solves, calls>>

\* the entrance and exit walls
OpenWallsBelow(g, w, h) ==
    LET g1 == [g EXCEPT ![0][0].left = FALSE]
    IN  [g1 EXCEPT ![PyIdx(h, NumRows(g))][PyIdx(w - 1, NumCols(g))].left = FALSE]

OpenWalls(g, w, h) ==
    LET g1 == [g EXCEPT ![0][0].left = FALSE]
    IN  [g1 EXCEPT ![PyIdx(h - 1, NumRows(g))][PyIdx(w, NumCols(g))].left = FALSE]

get_maze_open_walls ==
    /\ pc = "open_walls"
    /\ IF Subscript(grid, 0, 0) /\ Subscript(grid, height - 1, width)
       THEN /\ grid' = OpenWalls(grid, width, height)
            /\ pc' = "start_walk"
            /\ UNCHANGED err
       ELSE /\ Raise("IndexError")
            /\ UNCHANGED grid
    /\ UNCHANGED <<px, py, file, key, width, height, iy, stack, data, data_in, origin,
                   in_origin, retval, found, edits, solves, calls>>

\* the cells randrange(width), randrange(height) can choose
StartCellsFixed(w, h) == { <<0, 0>> }

StartCells(w, h) == (0..(w - 1)) \X (0..(h - 1))

\* calls[<<x, y>>]: how many times the running walk was called on (x, y)
NoCalls(g) == [c \in (0..(NumCols(g) - 1)) \X (0..(NumRows(g) - 1)) |-> 0]

\* the effect of a call enter_cell(x, y) up to its for loop, made on grid g
\* with call stack stk
EnterCell(g, stk, cnt, x, y) ==
    /\ grid' = Visit(g, x, y)
    /\ stack' = Append(stk, Frame(x, y, Shuffled(Neighbors(x, y, width, height))))
    /\ calls' = [cnt EXCEPT ![<<x, y>>] = @ + 1]

\* enter_cell(randrange(width), randrange(height))
get_maze_start_walk ==
    /\ pc = "start_walk"
    /\ IF StartCells(width, height) = {}
       THEN \* randrange of an empty range
            /\ Raise("ValueError")
            /\ UNCHANGED <<grid, stack, calls>>
       ELSE /\ \E c \in StartCells(width, height) :
                  EnterCell(grid, << >>, NoCalls(grid), c[1], c[2])
            /\ pc' = "walk"
            /\ UNCHANGED err
    /\ UNCHANGED <<px, py, file, key, width, height, iy, data, data_in, origin,
                   in_origin, retval, found, edits, solves>>

\* one pass of the for loop of the innermost enter_cell: skip a visited
\* neighbor, or remove the wall and enter the neighbor
enter_cell_next ==
    /\ pc = "walk"
    /\ stack # << >>
    /\ \E n \in Top.neighbors :
          LET x == Top.x
              y == Top.y
              nx == n[1]
              ny == n[2]
              rest == [stack EXCEPT ![Len(stack)].neighbors = @ \ {n}]
          IN  IF SkipVisited(grid, nx, ny)
              THEN /\ stack' = rest
                   /\ UNCHANGED <<grid, calls>>
              ELSE EnterCell(RemoveWall(grid, x, y, nx, ny), rest, calls, nx, ny)
    /\ UNCHANGED <<px, py, file, key, width, height, pc, iy, err, data, data_in, origin,
                   in_origin, retval, found, edits, solves>>

\* the for loop of the innermost enter_cell is exhausted: it returns
enter_cell_return ==
    /\ pc = "walk"
    /\ stack # << >>
    /\ Top.neighbors = {}
    /\ stack' = Pop
    /\ UNCHANGED <<px, py, file, key, width, height, grid, pc, iy, err, data, data_in, origin,
                   in_origin, retval, found, edits, solves, calls>>

\* ------------------------------------------------------------------- JSON
JsonBool(b) == IF b THEN "true" ELSE "false"

FromJsonBool(s) == s = "true"

\* json.dumps(grid): a list of rows, each a list of objects
dumps(g) ==
    [r \in 1..NumRows(g) |-> [c \in 1..NumCols(g) |->
        [top |-> JsonBool(g[r - 1][c - 1].top),
         left |-> JsonBool(g[r - 1][c - 1].left),
         path |-> JsonBool(g[r - 1][c - 1].path),
         visited |-> JsonBool(g[r - 1][c - 1].visited)]]]

\* json.loads(data)
loads(d) ==
    [y \in 0..(Len(d) - 1) |-> [x \in 0..(Len(d[1]) - 1) |->
        [top |-> FromJsonBool(d[y + 1][x + 1].top),
         left |-> FromJsonBool(d[y + 1][x + 1].left),
         path |-> FromJsonBool(d[y + 1][x + 1].path),
         visited |-> FromJsonBool(d[y + 1][x + 1].visited)]]]

NoData == << >>

NoGrid == << >>

\* return json.dumps(grid)
get_maze_return ==
    /\ pc = "walk"
    /\ stack = << >>
    /\ data' = dumps(grid)
    /\ grid' = NoGrid
    /\ origin' = "get_maze"
    /\ pc' = "idle"
    /\ UNCHANGED <<px, py, file, key, width, height, iy, stack, err, data_in,
                   in_origin, retval, found, edits, solves, calls>>

\* ------------------------------------------------------------- the caller
FlipJson(s) == IF s = "true" THEN "false" ELSE "true"

\* the caller rewrites, in the JSON data it holds, one wall flag between
\* two playable cells
edit_wall ==
    /\ pc = "idle"
    /\ edits < MaxEdits
    /\ \E x \in 0..(width - 1), y \in 0..(height - 1) :
          \/ /\ y >= 1
             /\ data' = [data EXCEPT ![y + 1][x + 1].top = FlipJson(@)]
          \/ /\ x >= 1
             /\ data' = [data EXCEPT ![y + 1][x + 1].left = FlipJson(@)]
    /\ edits' = edits + 1
    /\ origin' = "edit"
    /\ UNCHANGED <<px, py, file, key, width, height, grid, pc, iy, stack, err, data_in,
                   in_origin, retval, found, solves, calls>>

\* ---------------------------------------------------------- set_maze_path
SolverWidth(g) == NumCols(g) - 1

SolverHeight(g) == NumRows(g) - 1

\* the reset loop: visited = False on every playable cell
ResetVisitedAndPath(g) ==
    [y \in DOMAIN g |-> [x \in DOMAIN g[y] |->
        IF y < SolverHeight(g) /\ x < SolverWidth(g)
        THEN [g[y][x] EXCEPT !.visited = FALSE, !.path = FALSE]
        ELSE g[y][x]]]

ResetVisited(g) ==
    [y \in DOMAIN g |-> [x \in DOMAIN g[y] |->
        IF y < SolverHeight(g) /\ x < SolverWidth(g)
        THEN [g[y][x] EXCEPT !.visited = FALSE]
        ELSE g[y][x]]]

\* test_path marks the accepted cell as visited
TestVisitMarked(g, x, y) == [g EXCEPT ![y][x].visited = TRUE, ![y][x].path = TRUE]

TestVisit(g, x, y) == [g EXCEPT ![y][x].visited = TRUE]

\* the for loop of test_path moves on to the next neighbor
RestStuck(nbrs) == nbrs

Rest(nbrs) == Tail(nbrs)

\* the for loop of test_path skips a visited neighbor
Seen(g, nx, ny) == g[ny][nx].visited

\* a present wall separates (x, y) from its neighbor (nx, ny)
WalledMin(g, x, y, nx, ny) ==
    \/ nx = x /\ g[CarveRowMin(y, ny)][x].top
    \/ ny = y /\ g[y][CarveColMin(x, nx)].left

WalledNever(g, x, y, nx, ny) == FALSE

Walled(g, x, y, nx, ny) ==
    \/ nx = x /\ g[max(y, ny)][x].top
    \/ ny = y /\ g[y][max(x, nx)].left

\* the accepted cell is the exit cell
IsGoalCorner(g, x, y) == x = SolverWidth(g) /\ y = SolverHeight(g)

IsGoal(g, x, y) == x = SolverWidth(g) - 1 /\ y = SolverHeight(g) - 1

\* the path mark of a cell from which the exit was found
MarkPathToggle(g, x, y) == [g EXCEPT ![y][x].path = ~@]

MarkPath(g, x, y) == [g EXCEPT ![y][x].path = TRUE]

\* the effect of a call test_path(x, y) up to its for loop, made with call
\* stack stk
TestPath(stk, x, y) ==
    /\ calls' = [calls EXCEPT ![<<x, y>>] = @ + 1]
    /\ IF IsGoal(grid, x, y)
       THEN /\ grid' = MarkPath(TestVisit(grid, x, y), x, y)
            /\ retval' = TRUE
            /\ stack' = stk
            /\ pc' = "test_ret"
       ELSE /\ grid' = TestVisit(grid, x, y)
            /\ stack' = Append(stk, Frame(x, y,
                   Neighbors(x, y, SolverWidth(grid), SolverHeight(grid))))
            /\ pc' = "test_loop"
            /\ UNCHANGED retval

\* grid = json.loads(data), and the reset of the visited flags
set_maze_path_load ==
    /\ pc = "idle"
    /\ solves < MaxSolves
    /\ grid' = ResetVisited(loads(data))
    /\ data_in' = data
    /\ in_origin' = origin
    /\ calls' = NoCalls(loads(data))
    /\ pc' = "test_call"
    /\ UNCHANGED <<px, py, file, key, width, height, iy, stack, err, data, origin,
                   retval, found, edits, solves>>

\* _ = test_path(0, 0): the call
test_path_start ==
    /\ pc = "test_call"
    /\ TestPath(<< >>, 0, 0)
    /\ UNCHANGED <<px, py, file, key, width, height, iy, err, data, data_in, origin,
                   in_origin, found, edits, solves>>

\* one pass of the for loop of the innermost test_path
test_path_next ==
    /\ pc = "test_loop"
    /\ Top.neighbors # << >>
    /\ LET x == Top.x
           y == Top.y
           nx == Head(Top.neighbors)[1]
           ny == Head(Top.neighbors)[2]
           rest == [stack EXCEPT ![Len(stack)].neighbors = Rest(@)]
       IN  IF Seen(grid, nx, ny) \/ Walled(grid, x, y, nx, ny)
           THEN /\ stack' = rest
                /\ UNCHANGED <<grid, pc, retval, calls>>
           ELSE TestPath(rest, nx, ny)
    /\ UNCHANGED <<px, py, file, key, width, height, iy, err, data, data_in, origin,
                   in_origin, found, edits, solves>>

\* the for loop of the innermost test_path is exhausted: return False
test_path_fail ==
    /\ pc = "test_loop"
    /\ Top.neighbors = << >>
    /\ stack' = Pop
    /\ retval' = FALSE
    /\ pc' = "test_ret"
    /\ UNCHANGED <<px, py, file, key, width, height, grid, iy, err, data, data_in, origin,
                   in_origin, found, edits, solves, calls>>

\* a recursive test_path has returned to the for loop of its caller
test_path_resume ==
    /\ pc = "test_ret"
    /\ stack # << >>
    /\ IF retval
       THEN /\ grid' = MarkPath(grid, Top.x, Top.y)
            /\ stack' = Pop
            /\ UNCHANGED pc
       ELSE /\ pc' = "test_loop"
            /\ UNCHANGED <<grid, stack>>
    /\ UNCHANGED <<px, py, file, key, width, height, iy, err, data, data_in, origin,
                   in_origin, retval, found, edits, solves, calls>>

\* test_path(0, 0) has returned: its result is dropped into _ and the
\* grid is returned as JSON
set_maze_path_return ==
    /\ pc = "test_ret"
    /\ stack = << >>
    /\ found' = retval
    /\ data' = dumps(grid)
    /\ grid' = NoGrid
    /\ origin' = "set_maze_path"
    /\ solves' = solves + 1
    /\ pc' = "idle"
    /\ UNCHANGED <<px, py, file, key, width, height, iy, stack, err, data_in,
                   in_origin, retval, edits, calls>>

\* ---------------------------------------------------------- specification
\* ------------------------------------------------------------------- play
\* the keys on_press tells apart: three commands, any other character,
\* escape and the four arrows
Arrows == {"left", "right", "up", "down"}

Keys == {"d", "r", "s", "x", "esc"} \cup Arrows

\* the variables of the solver module that the game never touches
library == <<iy, stack, err, data, data_in, origin, in_origin, retval, found,
             edits, solves, calls>>

\* grid[y][x]['path'] = b
SetPath(g, y, x, b) == SetCell(g, y, x, [g[PyIdx(y, NumRows(g))][PyIdx(x, NumCols(g))] EXCEPT !.path = b])

\* the guards of the four moves
CanMoveLeftOpen(g, x, y) == ~g[y][x].left

CanMoveLeft(g, x, y) == x > 0 /\ ~g[y][x].left

CanMoveRight(g, x, y, w) == x < w - 1 /\ ~g[y][x + 1].left

CanMoveUp(g, x, y) == y > 0 /\ ~g[y][x].top

CanMoveDown(g, x, y, h) == y < h - 1 /\ ~g[y + 1][x].top

\* the player's coordinates after key k
Moved(g, x, y, w, h, k) ==
    IF k = "left" THEN (IF CanMoveLeft(g, x, y) THEN <<x - 1, y>> ELSE <<x, y>>)
    ELSE IF k = "right" THEN (IF CanMoveRight(g, x, y, w) THEN <<x + 1, y>> ELSE <<x, y>>)
    ELSE IF k = "up" THEN (IF CanMoveUp(g, x, y) THEN <<x, y - 1>> ELSE <<x, y>>)
    ELSE IF k = "down" THEN (IF CanMoveDown(g, x, y, h) THEN <<x, y + 1>> ELSE <<x, y>>)
    ELSE <<x, y>>

\* the player has found the exit
ExitFound(x, y, w, h) == x = w - 1 /\ y = h - 1

\* display_path clears the path of every playable cell
ClearPath(g, w, h) ==
    [y \in DOMAIN g |-> [x \in DOMAIN g[y] |->
        IF x < w /\ y < h THEN [g[y][x] EXCEPT !.path = FALSE] ELSE g[y][x]]]

\* reload_game restores the coordinates from the first playable cell, in
\* row order, that carries a path flag, and (0, 0) when there is none
Restored(g, w, h) ==
    LET marks == {c \in (0..(w - 1)) \X (0..(h - 1)) : g[c[2]][c[1]].path}
    IN  IF marks = {} THEN <<0, 0>>
        ELSE CHOOSE c \in marks : \A d \in marks :
                 c[2] < d[2] \/ (c[2] = d[2] /\ c[1] <= d[1])

\* play() up to the listener: a new maze with the player at (0, 0)
play ==
    /\ pc = "idle"
    /\ origin = "get_maze"
    /\ grid' = SetPath(loads(data), 0, 0, TRUE)
    /\ px' = 0
    /\ py' = 0
    /\ pc' = "play"
    /\ UNCHANGED <<width, height, file, key>>
    /\ UNCHANGED library

\* key 'd': the solution is computed on a copy and printed, the grid keeps
\* only the cleared path, and the listener stops
display_path ==
    /\ pc = "play"
    /\ key' = "d"
    /\ grid' = ClearPath(grid, width, height)
    /\ pc' = "stopped"
    /\ UNCHANGED <<width, height, px, py, file>>
    /\ UNCHANGED library

\* key 'r': the saved grid, if there is one, replaces the game's; a read
\* error stops the listener
reload_game ==
    /\ pc = "play"
    /\ key' = "r"
    /\ \/ /\ file = NoData
          /\ UNCHANGED <<width, height, grid, px, py, pc>>
       \/ /\ file # NoData
          /\ grid' = loads(file)
          /\ width' = NumCols(grid') - 1
          /\ height' = NumRows(grid') - 1
          /\ px' = Restored(grid', width', height')[1]
          /\ py' = Restored(grid', width', height')[2]
          /\ UNCHANGED pc
       \/ /\ file # NoData
          /\ pc' = "stopped"
          /\ UNCHANGED <<width, height, grid, px, py>>
    /\ UNCHANGED file
    /\ UNCHANGED library

\* key 's': the grid is written to the file; a write error stops the
\* listener
save_game ==
    /\ pc = "play"
    /\ key' = "s"
    /\ \/ /\ file' = dumps(grid)
          /\ UNCHANGED pc
       \/ /\ pc' = "stopped"
          /\ UNCHANGED file
    /\ UNCHANGED <<width, height, grid, px, py>>
    /\ UNCHANGED library

\* every other key: the marker is cleared, escape stops, an arrow moves
\* the player if its guard allows, the marker is set again, and reaching
\* the exit stops the listener
on_press ==
    /\ pc = "play"
    /\ \E k \in Keys \ {"d", "r", "s"} :
          LET cleared == SetPath(grid, py, px, FALSE)
              to == Moved(cleared, px, py, width, height, k)
          IN  /\ key' = k
              /\ IF k = "esc"
                 THEN /\ grid' = cleared
                      /\ pc' = "stopped"
                      /\ UNCHANGED <<px, py>>
                 ELSE /\ px' = to[1]
                      /\ py' = to[2]
                      /\ grid' = SetPath(cleared, to[2], to[1], TRUE)
                      /\ pc' = IF ExitFound(to[1], to[2], width, height)
                               THEN "stopped" ELSE "play"
    /\ UNCHANGED <<width, height, file>>
    /\ UNCHANGED library

Init ==
    /\ width \in (0 - NegDim)..MaxCells
    /\ height \in (0 - NegDim)..MaxCells
    /\ (width >= 1 /\ height >= 1) => width * height <= MaxCells
    /\ grid = NoGrid
    /\ pc = "get_maze"
    /\ iy = 0
    /\ stack = << >>
    /\ err = "none"
    /\ data = NoData
    /\ data_in = NoData
    /\ origin = "none"
    /\ in_origin = "none"
    /\ retval = FALSE
    /\ found = FALSE
    /\ edits = 0
    /\ solves = 0
    /\ calls = << >>
    /\ px = 0
    /\ py = 0
    /\ file = NoData
    /\ key = "none"

Next ==
    \/ get_maze_alloc
    \/ get_maze_fill_row
    \/ get_maze_fill_closure
    \/ get_maze_open_walls
    \/ get_maze_start_walk
    \/ enter_cell_next
    \/ enter_cell_return
    \/ get_maze_return
    \/ edit_wall
    \/ set_maze_path_load
    \/ test_path_start
    \/ test_path_next
    \/ test_path_fail
    \/ test_path_resume
    \/ set_maze_path_return
    \/ play
    \/ display_path
    \/ reload_game
    \/ save_game
    \/ on_press

Spec == Init /\ [][Next]_vars

\* the steps of a running get_maze or set_maze_path: once called, the
\* function runs on the calling thread until it returns or raises
Run ==
    \/ get_maze_alloc
    \/ get_maze_fill_row
    \/ get_maze_fill_closure
    \/ get_maze_open_walls
    \/ get_maze_start_walk
    \/ enter_cell_next
    \/ enter_cell_return
    \/ get_maze_return
    \/ test_path_start
    \/ test_path_next
    \/ test_path_fail
    \/ test_path_resume
    \/ set_maze_path_return

LiveSpec == Spec /\ WF_vars(Run)

\* ------------------------------------------------- vocabulary of the claims
\* the grid the caller holds, and the grid the last set_maze_path was given
Held == loads(data)

Given == loads(data_in)

\* get_maze has returned and its data is untouched
MazeReturned == pc = "idle" /\ origin = "get_maze"

\* set_maze_path has returned and its data is untouched
PathReturned == pc = "idle" /\ origin = "set_maze_path"

AllCells(g) == (0..(NumCols(g) - 1)) \X (0..(NumRows(g) - 1))

Playable(g) == (0..(NumCols(g) - 2)) \X (0..(NumRows(g) - 2))

\* an open interior wall joins the playable cells a and b
Joined(g, a, b) ==
    \/ a[1] = b[1] /\ (a[2] = b[2] + 1 \/ b[2] = a[2] + 1) /\ ~g[max(a[2], b[2])][a[1]].top
    \/ a[2] = b[2] /\ (a[1] = b[1] + 1 \/ b[1] = a[1] + 1) /\ ~g[a[2]][max(a[1], b[1])].left

RECURSIVE Reach(_, _)
\* the playable cells joined to a cell of S by a route of open walls
Reach(g, S) ==
    LET N == S \cup {b \in Playable(g) : \E a \in S : Joined(g, a, b)}
    IN  IF N = S THEN S ELSE Reach(g, N)

Connected(g) == Reach(g, {<<0, 0>>}) = Playable(g)

Degree(g, S, a) == Cardinality({b \in S : Joined(g, a, b)})

RECURSIVE Prune(_, _)
\* what is left of S after removing, again and again, its cells with at
\* most one open wall into S: nothing iff the open walls form no cycle
Prune(g, S) ==
    LET L == {a \in S : Degree(g, S, a) <= 1}
    IN  IF L = {} THEN S ELSE Prune(g, S \ L)

Acyclic(g) == Prune(g, Playable(g)) = {}

\* the removed interior walls: (x, y, "top") for y >= 1, (x, y, "left") for x >= 1
RemovedInterior(g) ==
    {c \in Playable(g) : c[2] >= 1 /\ ~g[c[2]][c[1]].top} \X {"top"}
    \cup {c \in Playable(g) : c[1] >= 1 /\ ~g[c[2]][c[1]].left} \X {"left"}

GoalCell(g) == <<NumCols(g) - 2, NumRows(g) - 2>>

\* a route of open walls joins (0, 0) to the goal cell
Route(g) == GoalCell(g) \in Reach(g, {<<0, 0>>})

PathCells(g) == {c \in AllCells(g) : g[c[2]][c[1]].path}

SameWalls(g, k) ==
    \A c \in AllCells(g) : /\ g[c[2]][c[1]].top = k[c[2]][c[1]].top
                           /\ g[c[2]][c[1]].left = k[c[2]][c[1]].left

\* a cell the finished search entered and gave up
Backtracked(g) == {c \in Playable(g) : calls[c] >= 1 /\ ~g[c[2]][c[1]].path}

\* ------------------------------------------------------------------ claims
\* C1: when get_maze returns, the playable cells with the open interior
\* walls as edges form a connected graph without a cycle.
C1_PerfectMaze == MazeReturned => Connected(Held) /\ Acyclic(Held)

C1_Witness ==
    /\ MazeReturned
    /\ width * height = 6
    /\ \E c \in Playable(Held) : Degree(Held, Playable(Held), c) = 3

\* C2: the grid returned by get_maze has exactly W*H - 1 removed interior
\* walls.
C2_WallCount == MazeReturned => Cardinality(RemovedInterior(Held)) = width * height - 1

C2_Witness ==
    /\ MazeReturned
    /\ width = 2 /\ height = 3
    /\ Cardinality(RemovedInterior(Held)) = 5

\* C3: on a grid produced by get_maze, test_path(0, 0) returns True and the
\* returned grid has path = true on the entrance cell and on the goal cell.
C3_SolveSucceeds ==
    (PathReturned /\ edits = 0) =>
        /\ found
        /\ Held[0][0].path
        /\ Held[height - 1][width - 1].path

C3_Witness ==
    /\ PathReturned /\ edits = 0
    /\ width = 3 /\ height = 2
    /\ found
    /\ Backtracked(Held) # {}

\* C4: a second set_maze_path on the result of a first one returns the same
\* path cells and the same walls as the first.
C4_Idempotent ==
    (PathReturned /\ in_origin = "set_maze_path") =>
        /\ PathCells(Held) = PathCells(Given)
        /\ SameWalls(Held, Given)

C4_Witness ==
    /\ PathReturned /\ in_origin = "set_maze_path"
    /\ edits >= 1
    /\ Cardinality(PathCells(Given)) >= 3

\* C5 (as amended): after get_maze returns, the outer boundary has exactly
\* two openings: the left wall of the entrance cell (0, 0) and the left wall
\* of the closure-column cell (W, H-1); every other top wall of row 0, left
\* wall of column 0, left wall of the closure column and top wall of the
\* closure row is present.
C5_Openings ==
    MazeReturned =>
        /\ ~Held[0][0].left
        /\ ~Held[height - 1][width].left
        /\ \A x \in 0..(width - 1) : Held[0][x].top /\ Held[height][x].top
        /\ \A y \in 1..(height - 1) : Held[y][0].left
        /\ \A y \in 0..(height - 2) : Held[y][width].left

C5_Witness ==
    /\ MazeReturned
    /\ width = 3 /\ height = 2
    /\ ~Held[1][3].left
    /\ Held[0][3].left

\* C5 as claimed: the exit opening is the left wall of the cell (W-1, H) of
\* the closure row, and no left wall of the closure column is open.
C5_AsClaimed ==
    MazeReturned =>
        /\ ~Held[0][0].left
        /\ ~Held[height][width - 1].left
        /\ \A x \in 0..(width - 1) : Held[0][x].top /\ Held[height][x].top
        /\ \A y \in 1..(height - 1) : Held[y][0].left
        /\ \A y \in 0..(height - 1) : Held[y][width].left

\* the closure flags of a grid g of a maze of w by h cells; the left wall of
\* (w, h-1) is as exitLeft says
ClosureFlags(g, w, h, exitLeft) ==
    /\ \A y \in 0..(h - 1) :
          /\ ~g[y][w].top /\ g[y][w].visited
          /\ g[y][w].left = (IF y = h - 1 THEN exitLeft ELSE TRUE)
    /\ \A x \in 0..(w - 1) :
          g[h][x].top /\ ~g[h][x].left /\ g[h][x].visited
    /\ ~g[h][w].top /\ ~g[h][w].left /\ g[h][w].visited

\* the carving walk is about to start, or runs, on valid dimensions
Carving == pc \in {"start_walk", "walk"} /\ width >= 1 /\ height >= 1

\* C6 (as amended): in every state of the carving walk and in the returned
\* grid, every closure-column cell has top = false and visited = true, and
\* left = true except for the cell (W, H-1), whose left wall is the exit
\* opening and is false; every closure-row cell has top = true, left =
\* false and visited = true; the corner has top = false, left = false and
\* visited = true.
C6_Closure ==
    /\ Carving => ClosureFlags(grid, width, height, FALSE)
    /\ MazeReturned => ClosureFlags(Held, width, height, FALSE)

C6_Witness ==
    /\ pc = "walk"
    /\ width = 2 /\ height = 2
    /\ Len(stack) = 3
    /\ grid[0][2].left /\ ~grid[1][2].left

\* C6 as claimed: every closure-column cell, (W, H-1) included, has
\* left = true.
C6_AsClaimed ==
    /\ Carving => ClosureFlags(grid, width, height, TRUE)
    /\ MazeReturned => ClosureFlags(Held, width, height, TRUE)

NonPositive == width <= 0 \/ height <= 0

CellsWritten(g) == {c \in AllCells(g) : g[c[2]][c[1]] # None}

C9_NoNewMarks ==
    (PathReturned /\ ~Route(Given)) => PathCells(Held) = PathCells(Given)

C9_Witness ==
    /\ PathReturned
    /\ ~Route(Given)
    /\ PathCells(Given) = {}
    /\ Cardinality(Backtracked(Held)) >= 3

\* C9 as claimed: the grid returned for an input without a route has
\* path = false on every cell.
C9_AsClaimed == (PathReturned /\ ~Route(Given)) => PathCells(Held) = {}

\* C10 (as amended): get_maze(1, 1) yields a grid whose playable cell (0, 0)
\* has its left wall open (the entrance) and its top wall present, and
\* set_maze_path on that grid marks exactly that cell, with a single call of
\* test_path.
C10_SingleCell ==
    (width = 1 /\ height = 1) =>
        /\ MazeReturned => ~Held[0][0].left /\ Held[0][0].top
        /\ (PathReturned /\ edits = 0) =>
              /\ ~Held[0][0].left /\ Held[0][0].top
              /\ found
              /\ PathCells(Held) = {<<0, 0>>}
              /\ calls[<<0, 0>>] = 1
              /\ \A c \in AllCells(Held) : c # <<0, 0>> => calls[c] = 0

C10_Witness ==
    /\ width = 1 /\ height = 1
    /\ PathReturned
    /\ solves = 1
    /\ PathCells(Held) = {<<0, 0>>}

\* C10 as claimed: both walls of the single playable cell are open.
C10_AsClaimed ==
    (width = 1 /\ height = 1 /\ MazeReturned) => ~Held[0][0].left /\ ~Held[0][0].top

RECURSIVE ReachAvoiding(_, _, _)
\* the playable cells joined to a cell of S by a route of open walls that
\* does not pass through the cell c
ReachAvoiding(g, S, c) ==
    LET N == S \cup {b \in Playable(g) \ {c} : \E a \in S : Joined(g, a, b)}
    IN  IF N = S THEN S ELSE ReachAvoiding(g, N, c)

\* the cells every route of open walls from (0, 0) to the goal cell passes
\* through: in a maze without a cycle, the cells of the one simple route
RouteCells(g) ==
    {c \in Playable(g) :
        \/ c = <<0, 0>>
        \/ c = GoalCell(g)
        \/ GoalCell(g) \notin ReachAvoiding(g, {<<0, 0>>}, c)}

\* C11: on a grid produced by get_maze, set_maze_path marks exactly the
\* cells of the simple route from (0, 0) to the goal cell: no backtracked
\* dead-end cell and no closure cell is marked, and between 1 and W*H cells
\* are marked.
C11_ExactRoute ==
    (PathReturned /\ edits = 0) =>
        /\ PathCells(Held) = RouteCells(Held)
        /\ PathCells(Held) \subseteq Playable(Held)
        /\ Backtracked(Held) \cap PathCells(Held) = {}
        /\ Cardinality(PathCells(Held)) >= 1
        /\ Cardinality(PathCells(Held)) <= width * height

C11_Witness ==
    /\ PathReturned /\ edits = 0
    /\ width = 2 /\ height = 3
    /\ Cardinality(Backtracked(Held)) >= 2
    /\ Cardinality(PathCells(Held)) = 4

\* C12: during get_maze, enter_cell is called at most once on each playable
\* cell, exactly on the visited ones, and never on a closure cell; when the
\* initial call has returned every playable cell was entered exactly once
\* and has visited = true.
C12_EnteredOnce ==
    /\ Carving /\ pc = "walk" =>
          /\ \A c \in Playable(grid) :
                calls[c] = (IF grid[c[2]][c[1]].visited THEN 1 ELSE 0)
          /\ \A c \in AllCells(grid) \ Playable(grid) : calls[c] = 0
          /\ stack = << >> =>
                \A c \in Playable(grid) : calls[c] = 1 /\ grid[c[2]][c[1]].visited
    /\ (MazeReturned /\ solves = 0) =>
          /\ \A c \in Playable(Held) : calls[c] = 1 /\ Held[c[2]][c[1]].visited
          /\ \A c \in AllCells(Held) \ Playable(Held) : calls[c] = 0

C12_Witness ==
    /\ pc = "walk"
    /\ stack = << >>
    /\ width = 3 /\ height = 2
    /\ \A c \in Playable(grid) : calls[c] = 1

\* the wall flags (cell, flag) on which the grids g and k differ
WallsChanged(g, k) ==
    {c \in AllCells(g) : g[c[2]][c[1]].top # k[c[2]][c[1]].top} \X {"top"}
    \cup {c \in AllCells(g) : g[c[2]][c[1]].left # k[c[2]][c[1]].left} \X {"left"}

\* the wall flag between (x, y) and its neighbor (nx, ny), by the
\* max-coordinate rule
WallBetween(x, y, nx, ny) ==
    IF nx = x THEN <<x, max(y, ny), "top">> ELSE <<max(x, nx), y, "left">>

\* C13: a pass of the for loop of enter_cell that moves from (x, y) into a
\* neighbor (nx, ny) finds that neighbor unvisited and changes exactly one
\* wall flag of the grid, the top flag of (x, max(y, ny)) or the left flag
\* of (max(x, nx), y); any other step of the walk, a skipped visited
\* neighbor included, changes no wall flag.
C13_OneWall ==
    [][(pc = "walk" /\ pc' = "walk") =>
          IF Len(stack') > Len(stack)
          THEN LET x == Top.x
                   y == Top.y
                   nx == stack'[Len(stack')].x
                   ny == stack'[Len(stack')].y
               IN  /\ ~grid[ny][nx].visited
                   /\ <<nx, ny>> \in Top.neighbors
                   /\ WallsChanged(grid, grid') =
                         {<<<<WallBetween(x, y, nx, ny)[1], WallBetween(x, y, nx, ny)[2]>>,
                            WallBetween(x, y, nx, ny)[3]>>}
          ELSE WallsChanged(grid, grid') = {}]_vars

\* a vertical and a horizontal carving step have been made, and a visited
\* neighbor has been skipped
C13_Witness ==
    /\ pc = "walk"
    /\ Len(stack) = 3
    /\ stack[1].x = stack[2].x /\ stack[2].y = stack[1].y + 1
    /\ stack[2].y = stack[3].y /\ stack[3].x = stack[2].x + 1
    /\ ~grid[stack[2].y][stack[2].x].top
    /\ ~grid[stack[3].y][stack[3].x].left
    /\ Cardinality(stack[3].neighbors) < Len(Neighbors(stack[3].x, stack[3].y, width, height))

\* the search of set_maze_path runs
Searching == pc \in {"test_call", "test_loop", "test_ret"}

\* C14: set_maze_path never clears a path flag and never changes a wall: its
\* reset changes nothing but the visited flags of the playable cells, which
\* become false, and in every state of the call and in the returned grid
\* every cell with path = true on input has path = true and every top and
\* left flag is the one of the input.
C14_PathKept ==
    /\ pc = "test_call" =>
          /\ \A c \in Playable(grid) :
                grid[c[2]][c[1]] = [Given[c[2]][c[1]] EXCEPT !.visited = FALSE]
          /\ \A c \in AllCells(grid) \ Playable(grid) :
                grid[c[2]][c[1]] = Given[c[2]][c[1]]
    /\ Searching =>
          /\ PathCells(Given) \subseteq PathCells(grid)
          /\ SameWalls(grid, Given)
    /\ PathReturned =>
          /\ PathCells(Given) \subseteq PathCells(Held)
          /\ SameWalls(Held, Given)

\* marks of a previous solution survive a call that finds no route
C14_Witness ==
    /\ PathReturned
    /\ ~found
    /\ Cardinality(PathCells(Given)) >= 3
    /\ PathCells(Held) = PathCells(Given)

\* C15: the carving walk of get_maze, once started on valid dimensions,
\* eventually returns from its initial call, and the search of
\* set_maze_path, on every grid given, eventually returns.
C15_Terminates ==
    /\ Carving ~> MazeReturned
    /\ Searching ~> PathReturned

\* a search on a grid with a cycle of open walls and no route to the goal
\* has returned
C15_Witness ==
    /\ PathReturned
    /\ edits = 2
    /\ ~Acyclic(Given)
    /\ ~Route(Given)
    /\ ~found

\* the game is on: the listener runs or has stopped
Playing == pc \in {"play", "stopped"}

\* the wall between (x, y) and the cell next to it in direction k stands
\* in the flag of the larger-coordinate cell
OpenTowards(g, x, y, k) ==
    IF k = "left" THEN ~g[y][x].left
    ELSE IF k = "right" THEN ~g[y][x + 1].left
    ELSE IF k = "up" THEN ~g[y][x].top
    ELSE ~g[y + 1][x].top

Step(x, y, k) ==
    IF k = "left" THEN <<x - 1, y>>
    ELSE IF k = "right" THEN <<x + 1, y>>
    ELSE IF k = "up" THEN <<x, y - 1>>
    ELSE <<x, y + 1>>

\* C16: during the game the player stays on a playable cell, and an arrow
\* key leaves the player in place or moves one cell in its direction
\* across a wall that the max-coordinate cell's flag shows open.
C16_LegalMoves ==
    /\ [](Playing => (0 <= px /\ px < width /\ 0 <= py /\ py < height))
    /\ [][(pc = "play" /\ key' \in Arrows) =>
             \/ <<px', py'>> = <<px, py>>
             \/ /\ <<px', py'>> = Step(px, py, key')
                /\ OpenTowards(grid, px, py, key')]_vars

\* with a game saved, the player is off the first row and column on a cell
\* whose top is open, and the last key was the down arrow
C16_Witness ==
    /\ pc = "play"
    /\ file # NoData
    /\ key = "down"
    /\ px >= 1
    /\ py >= 1
    /\ grid[py][px].path
    /\ ~grid[py][px].top

====
